---- MODULE Spec2Model ----
(***************************************************************************)
(* Model of the staged, checkpointed fairness reranking pipeline of        *)
(* src/src/main.py (class Reranking and the __main__ driver).              *)
(*                                                                         *)
(* Python lists are TLA+ sequences: the Python index m is the TLA+ index   *)
(* m + 1.  Candidate ids and oracle positions keep their Python (0-based)  *)
(* values.                                                                 *)
(***************************************************************************)
EXTENDS Integers, Sequences, FiniteSets, TLC

VARIABLES
    call,       \* the function call under study: its name and its arguments
    fpc,        \* "call" before the function has run, "returned" after it
    result,     \* what the call returned or raised (<<>> before the call)
    prog,       \* the __main__ program: arguments, status, discovered files
    ninv,       \* how many times the program has been started
    fs,         \* the output tree: path -> [state, data]
    log,        \* ../output/fairness.runtime.txt, a sequence of lines
    pc,         \* per discovered file: where its Reranking.run stands
    loc,        \* per discovered file: the local variables of its run
    err,        \* per discovered file: the exception that ended its run
    executed,   \* per discovered file: the stage functions its run has called
    wrote,      \* per discovered file: the paths its run has written
    hit,        \* per discovered file: the stages whose checkpoint loaded
    nenv,       \* how many times the output tree was changed by hand
    start,      \* the output tree and the log as they were when the program started,
                \* and the stages in which the runs of the program before it failed
    answered    \* the answers reranking.rerank has given: its arguments -> positions

fvars == <<call, fpc, result>>
pvars == <<prog, ninv, fs, log, pc, loc, err, executed, wrote, hit, nenv, start, answered>>
vars  == <<call, fpc, result, prog, ninv, fs, log, pc, loc, err, executed, wrote, hit, nenv, start, answered>>

(***************************************************************************)
(* Bounds of the function-level specifications.                            *)
(***************************************************************************)
RkCands  == 2      \* candidates (columns) of a prediction row
RkTeams  == 2      \* most team rows of a prediction matrix
MaxScore == 1      \* predicted scores are drawn from 0..MaxScore
RkKMax   == 2      \* largest cutoff k_max handed to the oracle

Labels == {"p", "np"}

Range(s) == {s[i] : i \in 1..Len(s)}

\* sequences over S of length at most n
RECURSIVE SeqUpTo(_, _)
SeqUpTo(S, n) ==
    IF n = 0 THEN {<<>>}
    ELSE LET shorter == SeqUpTo(S, n - 1)
         IN  shorter \cup {Append(s, x) : s \in {t \in shorter : Len(t) = n - 1}, x \in S}

\* sequences over S of length exactly n
SeqOfLen(S, n) == {s \in SeqUpTo(S, n) : Len(s) = n}

NoDup(s) == \A i, j \in 1..Len(s) : i # j => s[i] # s[j]

RECURSIVE SumSeq(_)
SumSeq(s) == IF s = <<>> THEN 0 ELSE Head(s) + SumSeq(Tail(s))

(***************************************************************************)
(* list.sort(key=lambda x: x[2], reverse=True): a stable sort, so the      *)
(* triples come out by score descending and, among equal scores, in their  *)
(* original (candidate id ascending) order.                                *)
(***************************************************************************)
RECURSIVE sort_by_probs(_)
sort_by_probs(S) ==
    IF S = {} THEN <<>>
    ELSE LET x == CHOOSE x \in S : \A y \in S :
                      x[3] > y[3] \/ (x[3] = y[3] /\ x[1] <= y[1])
         IN  <<x>> \o sort_by_probs(S \ {x})

\* [(m, labels[m], float(team[m])) for m in range(len(team))], then sorted
member_popularity_probs(team, labels) ==
    sort_by_probs({<<m, labels[m + 1], team[m + 1]>> : m \in 0..(Len(team) - 1)})

\* Python list indexing lst[p]: negative p counts from the end, anything
\* outside [-len, len) raises IndexError
PyInRange(lst, p) == p >= -Len(lst) /\ p < Len(lst)
PyIndex(lst, p) == IF p >= 0 THEN lst[p + 1] ELSE lst[Len(lst) + p + 1]

\* reranked_probs = [member_popularity_probs[m][2] for m in reranked_idx]
reranked_probs_of(mpp, reranked_idx) ==
    [j \in 1..Len(reranked_idx) |-> PyIndex(mpp, reranked_idx[j])[3]]

\* idx.append(reranked_idx): the ids that rerank emits for a team are the
\* oracle's answer as it came back
emitted_idx_shifted(mpp, reranked_idx) ==
    [j \in 1..Len(reranked_idx) |-> reranked_idx[j] + 1]

emitted_idx(mpp, reranked_idx) == reranked_idx

(***************************************************************************)
(* Reranking.rerank.  oracle[i] is what reranking.rerank returned for the  *)
(* i-th team (the oracle is external: its answers are inputs).  The loop   *)
(* appends one runtime-log line per oracle call, before the scores are     *)
(* looked up; the table is written only after the last team.               *)
(***************************************************************************)
RECURSIVE rerank_loop(_, _, _, _, _)
rerank_loop(preds, labels, oracle, i, acc) ==
    IF i > Len(preds) THEN [acc EXCEPT !.csv = TRUE]
    ELSE LET mpp          == member_popularity_probs(preds[i], labels)
             reranked_idx == oracle[i]
             logged       == [acc EXCEPT !.nlog = @ + 1]
         IN  IF \E j \in 1..Len(reranked_idx) : ~PyInRange(mpp, reranked_idx[j])
             THEN [logged EXCEPT !.err = "IndexError"]
             ELSE rerank_loop(preds, labels, oracle, i + 1,
                              [logged EXCEPT
                                  !.idx   = Append(@, emitted_idx(mpp, reranked_idx)),
                                  !.probs = Append(@, reranked_probs_of(mpp, reranked_idx))])

\* the table written whether or not the loop came to its end
rerank_checkpointing(preds, labels, oracle) ==
    [rerank_loop(preds, labels, oracle, 1,
                 [err |-> "none", idx |-> <<>>, probs |-> <<>>, nlog |-> 0, csv |-> FALSE])
        EXCEPT !.csv = TRUE]

rerank(preds, labels, oracle) ==
    rerank_loop(preds, labels, oracle, 1,
                [err |-> "none", idx |-> <<>>, probs |-> <<>>, nlog |-> 0, csv |-> FALSE])

(***************************************************************************)
(* Specification of Reranking.rerank as a function: Init draws the         *)
(* predictions, the labels, k_max and the oracle's answers; the action     *)
(* applies the function.                                                   *)
(***************************************************************************)
RkScores    == 0..MaxScore
RkRows      == SeqOfLen(RkScores, RkCands)
\* prediction matrices of 1..RkTeams rows, up to the order of their rows
RkRowVal(row) == SumSeq([m \in 1..Len(row) |-> row[m] * ((MaxScore + 1) ^ (m - 1))])
RECURSIVE RkRowSeqs(_)
RkRowSeqs(n) ==
    IF n = 0 THEN {<<>>}
    ELSE LET shorter == RkRowSeqs(n - 1)
         IN  shorter \cup
             UNION {{Append(s, x) : x \in {r \in RkRows :
                                             Len(s) = 0 \/ RkRowVal(r) >= RkRowVal(s[Len(s)])}} :
                    s \in {t \in shorter : Len(t) = n - 1}}
RkPreds     == RkRowSeqs(RkTeams) \ {<<>>}
RkLabels    == SeqOfLen(Labels, RkCands)
\* the positions an oracle may answer with: every position of the sorted
\* order, one below it and one above it; the oracle answers the teams of one
\* call alike
RkPositions == (-1)..RkCands
RkAnswers(k) == {s \in SeqUpTo(RkPositions, k) : NoDup(s)}

\* the pipeline is not started in the function-level specifications
PipelineOff ==
    /\ prog = [status |-> "off"]
    /\ ninv = 0
    /\ fs = <<>>
    /\ log = <<>>
    /\ pc = <<>>
    /\ loc = <<>>
    /\ err = <<>>
    /\ executed = <<>>
    /\ wrote = <<>>
    /\ hit = <<>>
    /\ nenv = 0
    /\ start = <<>>
    /\ answered = <<>>

InitRerank ==
    /\ PipelineOff
    /\ \E preds \in RkPreds, labels \in RkLabels, k_max \in 1..RkKMax :
         \E answer \in RkAnswers(k_max) :
            call = [fn |-> "rerank", preds |-> preds, labels |-> labels,
                    k_max |-> k_max, oracle |-> [t \in 1..Len(preds) |-> answer]]
    /\ fpc = "call"
    /\ result = <<>>

CallRerank ==
    /\ call.fn = "rerank"
    /\ fpc = "call"
    /\ fpc' = "returned"
    /\ result' = rerank(call.preds, call.labels, call.oracle)
    /\ UNCHANGED <<call, pvars>>

NextRerank == CallRerank

SpecRerank == InitRerank /\ [][NextRerank]_vars

(***************************************************************************)
(* Reranking.get_stats.  The membership matrix is a record of its column   *)
(* count and its rows (0/1 sequences), so that a matrix with teams but no  *)
(* candidate has a shape.  Floats are kept exact: a ratio is the pair      *)
(* <<numerator, denominator>>, the coefficient is coef[1] / coef[2].       *)
(***************************************************************************)
StCands   == 2     \* most candidates (columns) of a membership matrix
StTeams   == 8     \* most teams (rows) of a membership matrix
MaxCoef   == 4     \* coefficients are drawn from 0/CoefDen .. MaxCoef/CoefDen
CoefDen   == 2

\* teamsvecs_members.sum(axis=0): one participation count per candidate
col_sums_of(members) ==
    [m \in 1..members.ncols |->
        SumSeq([r \in 1..Len(members.rows) |-> members.rows[r][m]])]

\* sorted(col_sums, reverse=True), the histogram keyed by ordinal rank
RECURSIVE sorted_desc(_)
sorted_desc(s) ==
    IF s = <<>> THEN <<>>
    ELSE LET i == CHOOSE i \in 1..Len(s) : \A j \in 1..Len(s) : s[i] >= s[j]
         IN  <<s[i]>> \o sorted_desc([k \in 1..(Len(s) - 1) |-> IF k < i THEN s[k] ELSE s[k + 1]])

\* 'p' if threshold <= nteam_member else 'np', with
\* threshold = coefficient * col_sums.mean() = coef[1]/coef[2] * total/n
popularity_label_strict(coef, total, n, nteam_member) ==
    IF coef[1] * total < nteam_member * n * coef[2] THEN "p" ELSE "np"

popularity_label(coef, total, n, nteam_member) ==
    IF coef[1] * total <= nteam_member * n * coef[2] THEN "p" ELSE "np"

count_p(labels) == Cardinality({m \in 1..Len(labels) : labels[m] = "p"})

\* labels.count('p') / stats['*nmembers']: Python raises ZeroDivisionError
\* on a zero divisor
popular_portion_guarded(np, nmembers) ==
    [err |-> "none", val |-> <<np, IF nmembers = 0 THEN 1 ELSE nmembers>>]

popular_portion(np, nmembers) ==
    IF nmembers = 0 THEN [err |-> "ZeroDivisionError", val |-> <<>>]
    ELSE [err |-> "none", val |-> <<np, nmembers>>]

\* col_sums.mean() of no column is nan (a warning, no exception) and the
\* label list is empty, so the first statement that can raise is the division
get_stats(members, coef) ==
    LET nmembers == members.ncols
        col_sums == col_sums_of(members)
        total    == SumSeq(col_sums)
        labels   == [m \in 1..nmembers |-> popularity_label(coef, total, nmembers, col_sums[m])]
        portion  == popular_portion(count_p(labels), nmembers)
    IN  IF portion.err # "none"
        THEN [err |-> portion.err, stats |-> <<>>, labels |-> <<>>,
              stats_pkl |-> FALSE, popularity_csv |-> FALSE]
        ELSE [err    |-> "none",
              stats  |-> [nmembers |-> nmembers,
                          nteams_candidate_idx |-> sorted_desc(col_sums),
                          avg_nteams_member |-> <<total, nmembers>>,
                          popularity_ratio |->
                              [p  |-> portion.val,
                               np |-> <<portion.val[2] - portion.val[1], portion.val[2]>>]],
              labels |-> labels,
              stats_pkl |-> TRUE, popularity_csv |-> TRUE]

\* membership matrices, up to the order of their rows
StRows(c) == SeqOfLen({0, 1}, c)
RowVal(row) == SumSeq([m \in 1..Len(row) |-> row[m] * (2 ^ (m - 1))])
RECURSIVE StRowSeqs(_, _)
StRowSeqs(c, n) ==
    IF n = 0 THEN {<<>>}
    ELSE LET shorter == StRowSeqs(c, n - 1)
         IN  shorter \cup
             UNION {{Append(s, x) : x \in {r \in StRows(c) :
                                             Len(s) = 0 \/ RowVal(r) >= RowVal(s[Len(s)])}} :
                    s \in {t \in shorter : Len(t) = n - 1}}
StMatrices == UNION {{[ncols |-> c, rows |-> rs] : rs \in StRowSeqs(c, StTeams)} : c \in 0..StCands}
StCoefs    == {<<k, CoefDen>> : k \in 0..MaxCoef}

InitStats ==
    /\ PipelineOff
    /\ \E members \in StMatrices, coef \in StCoefs :
         call = [fn |-> "get_stats", members |-> members, coefficient |-> coef]
    /\ fpc = "call"
    /\ result = <<>>

CallGetStats ==
    /\ call.fn = "get_stats"
    /\ fpc = "call"
    /\ fpc' = "returned"
    /\ result' = get_stats(call.members, call.coefficient)
    /\ UNCHANGED <<call, pvars>>

NextStats == CallGetStats

SpecStats == InitStats /\ [][NextStats]_vars

(***************************************************************************)
(*                 THE PIPELINE: __main__ and Reranking.run                *)
(***************************************************************************)
PCores         == 2     \* worker processes of the pool (-core)
MaxInvocations == 2     \* how many times the program is started
MaxEnv         == 1     \* how many checkpoints are deleted or damaged by hand

\* what os.walk discovers below -output: two prediction files of one setting
\* directory, or the same file name in two setting directories
Layouts ==
    { << [setting |-> "s1", rfile |-> "f0.test.pred"],
         [setting |-> "s1", rfile |-> "f1.test.pred"] >>,
      << [setting |-> "s1", rfile |-> "f0.test.pred"],
         [setting |-> "s2", rfile |-> "f0.test.pred"] >> }

\* -ratios: omitted (None) or a list of two floats (here in tenths)
NoRatios  == <<>>
RatioArgs == {NoRatios, <<5, 5>>}

\* torch.load(fpreds): every prediction file has its own scores (one test team)
PredsOf(i) == IF i = 1 THEN << <<1, 2>> >> ELSE << <<4, 3>> >>
\* pickle.load(fteamsvecs)['member'] and json.load(fsplits), shared by all files
PMembers == [ncols |-> 2, rows |-> << <<1, 0>>, <<1, 0>>, <<1, 1>> >>]
PSplits  == [train |-> <<0, 1>>, test |-> <<2>>]

\* the answers the oracle may give for a team of two candidates: the sorted
\* order reversed, a negative position, a too large position
PAnswers == { <<1, 0>>, <<-1>>, <<2>> }

Files == 1..Len(prog.files)

\* output = f"{...}/{row['setting']}//rerank/", new_output = f'{output}/{basename}'
OutputOf(row)    == <<row.setting, "">>
NewOutputOf(row) == <<row.setting, row.rfile>>

\* the checkpoint paths as the code formats them (algorithm = 'det_cons' and
\* k_max = None are the defaults of run; __main__ passes neither)
StatsPkl(output)            == <<output[1], "", "stats.pkl">>
PopularityCsv(output)       == <<output[1], "", "popularity.csv">>
RerankedPredsPkl(output)    == <<output[1], "", "reranked.det_cons.None.preds.pkl">>
RerankCsv(new_output)       == <<new_output[1], new_output[2], ".rerank.det_cons.None.csv">>
\* line 190 formats the path of the rerank table a second time, to read it
RerankCsvInOutputDir(new_output) == <<new_output[1], "", ".rerank.det_cons.None.csv">>
RerankCsvRead(new_output)   == <<new_output[1], new_output[2], ".rerank.det_cons.None.csv">>
FairevalCsv(new_output)     == <<new_output[1], new_output[2], ".faireval.det_cons.None.csv">>
UtilityBeforeCsv(new_output) == <<new_output[1], new_output[2], ".utilityeval.before.csv">>
UtilityAfterCsv(new_output) == <<new_output[1], new_output[2], ".utilityeval.det_cons.None.after.csv">>

PathsOf(row) ==
    { StatsPkl(OutputOf(row)), PopularityCsv(OutputOf(row)), RerankedPredsPkl(OutputOf(row)),
      RerankCsv(NewOutputOf(row)), FairevalCsv(NewOutputOf(row)),
      UtilityBeforeCsv(NewOutputOf(row)), UtilityAfterCsv(NewOutputOf(row)) }
AllPaths(files) == UNION {PathsOf(files[i]) : i \in 1..Len(files)}

\* a file of the output tree
Absent   == [state |-> "absent", data |-> <<>>]
FileAt(path) == IF path \in DOMAIN fs THEN fs[path] ELSE Absent
Stored(d) == [state |-> "ok", data |-> d]
Damaged(how) == [state |-> how, data |-> <<>>]

\* pickle.load(open(path, 'rb')): a missing file, an empty file and a file
\* that is no pickle raise three different exceptions
pickle_load(file) ==
    [err  |-> CASE file.state = "absent"  -> "FileNotFoundError"
                [] file.state = "empty"   -> "EOFError"
                [] file.state = "garbage" -> "UnpicklingError"
                [] OTHER -> "none",
     data |-> file.data]

\* pd.read_csv(path)
read_csv(file) ==
    [err  |-> CASE file.state = "absent"  -> "FileNotFoundError"
                [] file.state = "empty"   -> "EmptyDataError"
                [] file.state = "garbage" -> "ParserError"
                [] OTHER -> "none",
     data |-> file.data]

NoLocals == [stats |-> <<>>, labels |-> <<>>, ratios |-> <<>>,
             reranked_idx |-> <<>>, probs |-> <<>>, reranked_preds |-> <<>>]

\* no run of the program before has failed
NoRuns(files) == [i \in 1..Len(files) |-> "none"]

Init ==
    /\ call = <<>> /\ fpc = "off" /\ result = <<>>
    /\ \E files \in Layouts :
         /\ prog = [status |-> "idle", files |-> files, mode |-> 0,
                    ratios |-> NoRatios, error |-> "none"]
         /\ fs = [path \in AllPaths(files) |-> Absent]
         /\ pc = [i \in 1..Len(files) |-> "pending"]
         /\ loc = [i \in 1..Len(files) |-> NoLocals]
         /\ err = [i \in 1..Len(files) |-> "none"]
         /\ executed = [i \in 1..Len(files) |-> {}]
         /\ wrote = [i \in 1..Len(files) |-> {}]
         /\ hit = [i \in 1..Len(files) |-> {}]
    /\ ninv = 0
    /\ log = <<>>
    /\ nenv = 0
    /\ start = [fs |-> fs, log |-> log, prev |-> NoRuns(prog.files)]
    /\ answered = <<>>

(***************************************************************************)
(* The stages of run, lines 177-218, in their order: the function each     *)
(* one calls and the checkpoint files each one owns.                       *)
(***************************************************************************)
StageNames == {"Labels", "Rerank", "FairnessEval", "SparseReconstruct",
               "UtilityEval(before)", "UtilityEval(after)"}

StageFunction(stage) ==
    CASE stage = "Labels"              -> "get_stats"
      [] stage = "Rerank"              -> "rerank"
      [] stage = "FairnessEval"        -> "eval_fairness"
      [] stage = "SparseReconstruct"   -> "reranked_preds"
      [] stage = "UtilityEval(before)" -> "eval_utility.before"
      [] stage = "UtilityEval(after)"  -> "eval_utility.after"

StageCheckpoints(stage, row) ==
    CASE stage = "Labels"              -> {StatsPkl(OutputOf(row)), PopularityCsv(OutputOf(row))}
      [] stage = "Rerank"              -> {RerankCsv(NewOutputOf(row))}
      [] stage = "FairnessEval"        -> {FairevalCsv(NewOutputOf(row))}
      [] stage = "SparseReconstruct"   -> {RerankedPredsPkl(OutputOf(row))}
      [] stage = "UtilityEval(before)" -> {UtilityBeforeCsv(NewOutputOf(row))}
      [] stage = "UtilityEval(after)"  -> {UtilityAfterCsv(NewOutputOf(row))}

StageOrder == <<"Labels", "Rerank", "FairnessEval", "SparseReconstruct",
                "UtilityEval(before)", "UtilityEval(after)">>

\* a stage is resolved in a run when its checkpoint was loaded or when its
\* function was called and has written its checkpoint (h, e, w are the hit,
\* executed and wrote sets of the run)
ResolvedBy(h, e, w, row, stage) ==
    \/ stage \in h
    \/ StageFunction(stage) \in e /\ StageCheckpoints(stage, row) \subseteq w

\* the stage a failed run ended in: the first one it has not resolved
FailedStage(h, e, w, row) ==
    StageOrder[CHOOSE k \in 1..Len(StageOrder) :
                  /\ ~ResolvedBy(h, e, w, row, StageOrder[k])
                  /\ \A j \in 1..(k - 1) : ResolvedBy(h, e, w, row, StageOrder[j])]

\* per file, the stage in which its run failed ("none": it did not fail)
FailedRuns ==
    [i \in Files |-> IF pc[i] = "failed"
                     THEN FailedStage(hit[i], executed[i], wrote[i], prog.files[i])
                     ELSE "none"]

Stopped == prog.status \in {"idle", "exited", "crashed"}

\* python main.py ... -mode mode [-ratios a b]: lines 252-263.  Line 263
\* subscripts args.ratios, which is None when -ratios is omitted.
Start(mode, ratios) ==
    /\ Stopped
    /\ ninv < MaxInvocations
    /\ ninv' = ninv + 1
    /\ prog' = [prog EXCEPT !.mode = mode, !.ratios = ratios,
                            !.status = IF ratios = NoRatios THEN "crashed" ELSE "running",
                            !.error  = IF ratios = NoRatios THEN "TypeError" ELSE "none"]
    /\ pc' = [i \in Files |-> "pending"]
    /\ loc' = [i \in Files |-> NoLocals]
    /\ err' = [i \in Files |-> "none"]
    /\ executed' = [i \in Files |-> {}]
    /\ wrote' = [i \in Files |-> {}]
    /\ hit' = [i \in Files |-> {}]
    /\ start' = [fs |-> fs, log |-> log, prev |-> FailedRuns]
    /\ UNCHANGED <<fs, log, nenv, answered, fvars>>

Active(i) == pc[i] \notin {"pending", "done", "failed"}

\* the for loop of lines 266-269 calls run for one row after the other; the
\* pool of lines 272-278 hands the rows out in order to its free workers
\* (two rows on at least one worker make chunks of one row).
\* run, lines 169-175: create the output directory, load the inputs.
run_begin(i) ==
    /\ prog.status = "running"
    /\ pc[i] = "pending"
    /\ \A j \in Files : j < i => pc[j] # "pending"
    /\ IF prog.mode = 0
       THEN \A j \in Files : j < i => pc[j] = "done"
       ELSE Cardinality({j \in Files : Active(j)}) < PCores
    /\ pc' = [pc EXCEPT ![i] = "labels"]
    /\ UNCHANGED <<prog, ninv, fs, log, loc, err, executed, wrote, hit, nenv, start, answered, fvars>>

\* an exception leaves run; in the sequential loop nothing catches it and
\* the program ends, in the pool it ends the task
Propagate(e) ==
    IF prog.mode = 0 THEN [prog EXCEPT !.status = "crashed", !.error = e] ELSE prog

\* if not ratios: ratios = stats['popularity_ratio']   (line 184)
ratios_of(ratios, stats) == IF ratios = NoRatios THEN stats.popularity_ratio ELSE ratios

\* lines 177-181 and 184: load the stats and the labels
run_labels_load(i) ==
    /\ prog.status = "running"
    /\ pc[i] = "labels"
    /\ LET output == OutputOf(prog.files[i])
           st     == pickle_load(fs[StatsPkl(output)])
           lb     == read_csv(fs[PopularityCsv(output)])
           e      == IF st.err # "none" THEN st.err ELSE lb.err
           caught == e \in {"FileNotFoundError", "EOFError"}
       IN  /\ pc' = [pc EXCEPT ![i] = IF e = "none" THEN "rerank"
                                      ELSE IF caught THEN "labels_compute" ELSE "failed"]
           /\ err' = [err EXCEPT ![i] = IF e = "none" \/ caught THEN @ ELSE e]
           /\ prog' = IF e = "none" \/ caught THEN prog ELSE Propagate(e)
           /\ loc' = IF e = "none"
                     THEN [loc EXCEPT ![i].stats = st.data, ![i].labels = lb.data,
                                      ![i].ratios = ratios_of(prog.ratios, st.data)]
                     ELSE loc
           /\ hit' = [hit EXCEPT ![i] = IF e = "none" THEN @ \cup {"Labels"} ELSE @]
    /\ UNCHANGED <<ninv, fs, log, executed, wrote, nenv, start, answered, fvars>>

\* lines 182-184: get_stats with coefficient=1, which writes both files
run_labels_compute(i) ==
    /\ prog.status = "running"
    /\ pc[i] = "labels_compute"
    /\ LET output == OutputOf(prog.files[i])
           r      == get_stats(PMembers, <<1, 1>>)
       IN  /\ executed' = [executed EXCEPT ![i] = @ \cup {"get_stats"}]
           /\ pc' = [pc EXCEPT ![i] = IF r.err = "none" THEN "rerank" ELSE "failed"]
           /\ err' = [err EXCEPT ![i] = IF r.err = "none" THEN @ ELSE r.err]
           /\ prog' = IF r.err = "none" THEN prog ELSE Propagate(r.err)
           /\ fs' = IF r.err = "none"
                    THEN [fs EXCEPT ![StatsPkl(output)] = Stored(r.stats),
                                    ![PopularityCsv(output)] = Stored(r.labels)]
                    ELSE fs
           /\ wrote' = [wrote EXCEPT ![i] = IF r.err = "none"
                            THEN @ \cup {StatsPkl(output), PopularityCsv(output)} ELSE @]
           /\ loc' = IF r.err = "none"
                     THEN [loc EXCEPT ![i].stats = r.stats, ![i].labels = r.labels,
                                      ![i].ratios = ratios_of(prog.ratios, r.stats)]
                     ELSE loc
    /\ UNCHANGED <<ninv, log, hit, nenv, start, answered, fvars>>

\* the arguments of one oracle call: the label sequence in score-descending
\* order and the ratios (algorithm and k_max never change)
oracle_args(team, labels, ratios) ==
    << [j \in 1..Len(team) |-> member_popularity_probs(team, labels)[j][2]], ratios >>

\* the oracle is a function of its arguments: it answers a repeated call as
\* it answered the first one
consistent(a, preds, labels, ratios) ==
    \A t \in 1..Len(preds) :
        LET k == oracle_args(preds[t], labels, ratios)
        IN  /\ k \in DOMAIN answered => a[t] = answered[k]
            /\ \A u \in 1..Len(preds) : k = oracle_args(preds[u], labels, ratios) => a[t] = a[u]

\* line 64: one line per oracle call (the duration is left out), written by
\* one write to the log opened for appending
runtime_line(output) == <<output, "det_cons", "None">>

\* the log opened with 'w': every call starts the file anew
truncate_and_write(lines, new) == new

append(lines, new) == lines \o new

\* lines 188-194: load the rerank table or, when the file is missing, call
\* Reranking.rerank(preds, labels, new_output, ratios, algorithm, k_max)
run_rerank(i) ==
    /\ prog.status = "running"
    /\ pc[i] = "rerank"
    /\ \E a \in [1..Len(PredsOf(i)) -> PAnswers] :
         LET preds      == PredsOf(i)
             new_output == NewOutputOf(prog.files[i])
             df         == read_csv(FileAt(RerankCsvRead(new_output)))
             miss       == df.err = "FileNotFoundError"
             r          == IF miss THEN rerank(preds, loc[i].labels, a)
                           ELSE [err |-> df.err, idx |-> <<>>, probs |-> <<>>,
                                 nlog |-> 0, csv |-> FALSE]
             asked      == {oracle_args(preds[t], loc[i].labels, loc[i].ratios) : t \in 1..r.nlog}
             line       == runtime_line(new_output)
         IN  /\ IF miss THEN consistent(a, preds, loc[i].labels, loc[i].ratios)
                ELSE a = [t \in 1..Len(preds) |-> CHOOSE x \in PAnswers : TRUE]
             /\ answered' = [k \in DOMAIN answered \cup asked |->
                                IF k \in DOMAIN answered THEN answered[k]
                                ELSE a[CHOOSE t \in 1..r.nlog :
                                         k = oracle_args(preds[t], loc[i].labels, loc[i].ratios)]]
             /\ log' = append(log, [n \in 1..r.nlog |-> line])
             /\ executed' = [executed EXCEPT ![i] = IF miss THEN @ \cup {"rerank"} ELSE @]
             /\ hit' = [hit EXCEPT ![i] = IF df.err = "none" THEN @ \cup {"Rerank"} ELSE @]
             /\ pc' = [pc EXCEPT ![i] = IF r.err = "none" THEN "faireval" ELSE "failed"]
             /\ err' = [err EXCEPT ![i] = IF r.err = "none" THEN @ ELSE r.err]
             /\ prog' = IF r.err = "none" THEN prog ELSE Propagate(r.err)
             /\ fs' = IF r.csv
                      THEN [fs EXCEPT ![RerankCsv(new_output)] =
                               Stored([reranked_idx |-> r.idx, reranked_probs |-> r.probs])]
                      ELSE fs
             /\ wrote' = [wrote EXCEPT ![i] = IF r.csv THEN @ \cup {RerankCsv(new_output)} ELSE @]
             /\ loc' = IF df.err = "none"
                       THEN [loc EXCEPT ![i].reranked_idx = df.data.reranked_idx,
                                        ![i].probs = df.data.reranked_probs]
                       ELSE IF r.err = "none"
                       THEN [loc EXCEPT ![i].reranked_idx = r.idx, ![i].probs = r.probs]
                       ELSE loc
    /\ UNCHANGED <<ninv, nenv, start, fvars>>

(***************************************************************************)
(* Reranking.eval_fairness.  reranking.ndkl is external: a table row keeps *)
(* the label sequences and the ratios that ndkl was called with.           *)
(***************************************************************************)
eval_fairness(preds, labels, reranked_idx, ratios) ==
    LET ok(t) == /\ t <= Len(reranked_idx)
                 /\ \A j \in 1..Len(reranked_idx[t]) : PyInRange(labels, reranked_idx[t][j])
    IN  IF \E t \in 1..Len(preds) : ~ok(t)
        THEN [err |-> "IndexError", dic |-> <<>>]
        ELSE [err |-> "none",
              dic |-> [t \in 1..Len(preds) |->
                        [before |-> oracle_args(preds[t], labels, ratios),
                         after  |-> << [j \in 1..Len(reranked_idx[t]) |->
                                           PyIndex(labels, reranked_idx[t][j])], ratios >>]]]

\* the fairness stage without its place in the order: it also runs when the
\* rerank stage is still to come
run_faireval_unordered(i) ==
    /\ prog.status = "running"
    /\ pc[i] \in {"rerank", "faireval"}
    /\ LET new_output == NewOutputOf(prog.files[i])
           e    == read_csv(fs[FairevalCsv(new_output)]).err
           miss == e = "FileNotFoundError"
           r    == IF miss
                   THEN eval_fairness(PredsOf(i), loc[i].labels, loc[i].reranked_idx, loc[i].ratios)
                   ELSE [err |-> e, dic |-> <<>>]
       IN  /\ executed' = [executed EXCEPT ![i] = IF miss THEN @ \cup {"eval_fairness"} ELSE @]
           /\ hit' = [hit EXCEPT ![i] = IF e = "none" THEN @ \cup {"FairnessEval"} ELSE @]
           /\ pc' = [pc EXCEPT ![i] = IF r.err = "none" THEN "sparse" ELSE "failed"]
           /\ err' = [err EXCEPT ![i] = IF r.err = "none" THEN @ ELSE r.err]
           /\ prog' = IF r.err = "none" THEN prog ELSE Propagate(r.err)
           /\ fs' = IF miss /\ r.err = "none"
                    THEN [fs EXCEPT ![FairevalCsv(new_output)] = Stored(r.dic)] ELSE fs
           /\ wrote' = [wrote EXCEPT ![i] = IF miss /\ r.err = "none"
                            THEN @ \cup {FairevalCsv(new_output)} ELSE @]
    /\ UNCHANGED <<ninv, log, loc, nenv, start, answered, fvars>>

(***************************************************************************)
(* Specification of Reranking.eval_fairness on the output of               *)
(* Reranking.rerank: Init draws one team's predictions, the labels, k_max  *)
(* and the oracle's answer; the first action reranks, the second evaluates *)
(* the fairness of what rerank returned.                                   *)
(***************************************************************************)
FairRatios == [p |-> <<1, 2>>, np |-> <<1, 2>>]

InitFair ==
    /\ PipelineOff
    /\ \E row \in RkRows, labels \in RkLabels, k_max \in 1..RkKMax :
         \E answer \in RkAnswers(k_max) :
            call = [fn |-> "eval_fairness", preds |-> <<row>>, labels |-> labels,
                    k_max |-> k_max, oracle |-> <<answer>>, ratios |-> FairRatios]
    /\ fpc = "call"
    /\ result = <<>>

CallRerankFirst ==
    /\ call.fn = "eval_fairness"
    /\ fpc = "call"
    /\ fpc' = "reranked"
    /\ result' = rerank(call.preds, call.labels, call.oracle)
    /\ UNCHANGED <<call, pvars>>

CallEvalFairness ==
    /\ call.fn = "eval_fairness"
    /\ fpc = "reranked"
    /\ result.err = "none"
    /\ fpc' = "returned"
    /\ result' = [rerank |-> result,
                  fair   |-> eval_fairness(call.preds, call.labels, result.idx, call.ratios)]
    /\ UNCHANGED <<call, pvars>>

NextFair == CallRerankFirst \/ CallEvalFairness

SpecFair == InitFair /\ [][NextFair]_vars

\* lines 196-201: load the fairness table or, when the file is missing, call
\* Reranking.eval_fairness
run_faireval(i) ==
    /\ prog.status = "running"
    /\ pc[i] = "faireval"
    /\ LET new_output == NewOutputOf(prog.files[i])
           e    == read_csv(fs[FairevalCsv(new_output)]).err
           miss == e = "FileNotFoundError"
           r    == IF miss
                   THEN eval_fairness(PredsOf(i), loc[i].labels, loc[i].reranked_idx, loc[i].ratios)
                   ELSE [err |-> e, dic |-> <<>>]
       IN  /\ executed' = [executed EXCEPT ![i] = IF miss THEN @ \cup {"eval_fairness"} ELSE @]
           /\ hit' = [hit EXCEPT ![i] = IF e = "none" THEN @ \cup {"FairnessEval"} ELSE @]
           /\ pc' = [pc EXCEPT ![i] = IF r.err = "none" THEN "sparse" ELSE "failed"]
           /\ err' = [err EXCEPT ![i] = IF r.err = "none" THEN @ ELSE r.err]
           /\ prog' = IF r.err = "none" THEN prog ELSE Propagate(r.err)
           /\ fs' = IF miss /\ r.err = "none"
                    THEN [fs EXCEPT ![FairevalCsv(new_output)] = Stored(r.dic)] ELSE fs
           /\ wrote' = [wrote EXCEPT ![i] = IF miss /\ r.err = "none"
                            THEN @ \cup {FairevalCsv(new_output)} ELSE @]
    /\ UNCHANGED <<ninv, log, loc, nenv, start, answered, fvars>>

(***************************************************************************)
(* Reranking.reranked_preds.  csr_matrix((value, (rows, cols)), shape)     *)
(* rejects an index outside the shape (ValueError) and adds up the values  *)
(* given for one (row, col) pair.                                          *)
(***************************************************************************)
RECURSIVE SumValues(_, _)
SumValues(C, value) ==
    IF C = {} THEN 0
    ELSE LET c == CHOOSE c \in C : TRUE
         IN  value[c[1]][c[2]] + SumValues(C \ {c}, value)

\* line 112, commented out in the source: the value taken from the ground truth
reranked_preds_ground_truth(members, splits, reranked_idx, reranked_probs) ==
    LET shape  == <<Len(splits.test), members.ncols>>
        coords == UNION {{<<t, j>> : j \in 1..Len(reranked_idx[t])} : t \in 1..Len(reranked_idx)}
        row(c) == c[1] - 1
        col(c) == reranked_idx[c[1]][c[2]]
    IN  IF \E c \in coords : row(c) >= shape[1] \/ col(c) < 0 \/ col(c) >= shape[2]
        THEN [err |-> "ValueError", matrix |-> <<>>]
        ELSE [err |-> "none",
              matrix |-> [shape |-> shape,
                          entries |-> [pos \in {<<row(c), col(c)>> : c \in coords} |->
                                          members.rows[splits.test[pos[1] + 1] + 1][pos[2] + 1]]]]

reranked_preds(members, splits, reranked_idx, reranked_probs) ==
    LET shape  == <<Len(splits.test), members.ncols>>
        coords == UNION {{<<t, j>> : j \in 1..Len(reranked_idx[t])} : t \in 1..Len(reranked_idx)}
        row(c) == c[1] - 1
        col(c) == reranked_idx[c[1]][c[2]]
    IN  IF \E c \in coords : row(c) >= shape[1] \/ col(c) < 0 \/ col(c) >= shape[2]
        THEN [err |-> "ValueError", matrix |-> <<>>]
        ELSE [err |-> "none",
              matrix |-> [shape |-> shape,
                          entries |-> [pos \in {<<row(c), col(c)>> : c \in coords} |->
                                          SumValues({c \in coords : <<row(c), col(c)>> = pos},
                                                    reranked_probs)]]]

\* reranked_preds.toarray()
toarray(m) ==
    [r \in 1..m.shape[1] |-> [c \in 1..m.shape[2] |->
        IF <<r - 1, c - 1>> \in DOMAIN m.entries THEN m.entries[<<r - 1, c - 1>>] ELSE 0]]

(***************************************************************************)
(* Specification of Reranking.reranked_preds as a function.  Init draws    *)
(* the id sequence of the teams (the teams of one call share it; ids may   *)
(* repeat and may lie outside the columns) and the scores of every team;   *)
(* the teams are drawn up to their order.  The test split is the first     *)
(* rows of a membership matrix of RkCands columns.                         *)
(***************************************************************************)
SpIdx == SeqUpTo(RkPositions, RkKMax)

SpRowVal(row) == SumSeq([m \in 1..Len(row) |-> row[m] * ((MaxScore + 1) ^ (m - 1))])
RECURSIVE SpRowSeqs(_, _)
SpRowSeqs(len, n) ==
    IF n = 0 THEN {<<>>}
    ELSE LET shorter == SpRowSeqs(len, n - 1)
         IN  shorter \cup
             UNION {{Append(s, x) : x \in {r \in SeqOfLen(RkScores, len) :
                                             Len(s) = 0 \/ SpRowVal(r) >= SpRowVal(s[Len(s)])}} :
                    s \in {t \in shorter : Len(t) = n - 1}}

SpMembers(n) == [ncols |-> RkCands, rows |-> [r \in 1..n |-> [m \in 1..RkCands |-> 0]]]
SpSplits(n)  == [train |-> <<>>, test |-> [k \in 1..n |-> k - 1]]

InitSparse ==
    /\ PipelineOff
    /\ \E ids \in SpIdx :
         \E probs \in SpRowSeqs(Len(ids), RkTeams) \ {<<>>} :
            call = [fn |-> "reranked_preds",
                    members |-> SpMembers(Len(probs)), splits |-> SpSplits(Len(probs)),
                    reranked_idx |-> [t \in 1..Len(probs) |-> ids],
                    reranked_probs |-> probs]
    /\ fpc = "call"
    /\ result = <<>>

CallRerankedPreds ==
    /\ call.fn = "reranked_preds"
    /\ fpc = "call"
    /\ fpc' = "returned"
    /\ result' = reranked_preds(call.members, call.splits, call.reranked_idx, call.reranked_probs)
    /\ UNCHANGED <<call, pvars>>

NextSparse == CallRerankedPreds

SpecSparse == InitSparse /\ [][NextSparse]_vars

\* the sparse matrix reconstructed whether or not its checkpoint loads
run_sparse_load_recomputing(i) ==
    /\ prog.status = "running"
    /\ pc[i] = "sparse"
    /\ LET pk     == pickle_load(fs[RerankedPredsPkl(OutputOf(prog.files[i]))])
           e      == pk.err
           caught == e = "FileNotFoundError"
       IN  /\ pc' = [pc EXCEPT ![i] = IF e = "none" \/ caught THEN "sparse_compute"
                                      ELSE "failed"]
           /\ err' = [err EXCEPT ![i] = IF e = "none" \/ caught THEN @ ELSE e]
           /\ prog' = IF e = "none" \/ caught THEN prog ELSE Propagate(e)
           /\ loc' = IF e = "none" THEN [loc EXCEPT ![i].reranked_preds = pk.data] ELSE loc
           /\ hit' = [hit EXCEPT ![i] = IF e = "none" THEN @ \cup {"SparseReconstruct"} ELSE @]
    /\ UNCHANGED <<ninv, fs, log, executed, wrote, nenv, start, answered, fvars>>

\* lines 202-204: load the sparse matrix (from the output directory)
run_sparse_load(i) ==
    /\ prog.status = "running"
    /\ pc[i] = "sparse"
    /\ LET pk     == pickle_load(fs[RerankedPredsPkl(OutputOf(prog.files[i]))])
           e      == pk.err
           caught == e = "FileNotFoundError"
       IN  /\ pc' = [pc EXCEPT ![i] = IF e = "none" THEN "utility_before"
                                      ELSE IF caught THEN "sparse_compute" ELSE "failed"]
           /\ err' = [err EXCEPT ![i] = IF e = "none" \/ caught THEN @ ELSE e]
           /\ prog' = IF e = "none" \/ caught THEN prog ELSE Propagate(e)
           /\ loc' = IF e = "none" THEN [loc EXCEPT ![i].reranked_preds = pk.data] ELSE loc
           /\ hit' = [hit EXCEPT ![i] = IF e = "none" THEN @ \cup {"SparseReconstruct"} ELSE @]
    /\ UNCHANGED <<ninv, fs, log, executed, wrote, nenv, start, answered, fvars>>

\* lines 205-207
run_sparse_compute(i) ==
    /\ prog.status = "running"
    /\ pc[i] = "sparse_compute"
    /\ LET output == OutputOf(prog.files[i])
           r == reranked_preds(PMembers, PSplits, loc[i].reranked_idx, loc[i].probs)
       IN  /\ executed' = [executed EXCEPT ![i] = @ \cup {"reranked_preds"}]
           /\ pc' = [pc EXCEPT ![i] = IF r.err = "none" THEN "utility_before" ELSE "failed"]
           /\ err' = [err EXCEPT ![i] = IF r.err = "none" THEN @ ELSE r.err]
           /\ prog' = IF r.err = "none" THEN prog ELSE Propagate(r.err)
           /\ fs' = IF r.err = "none"
                    THEN [fs EXCEPT ![RerankedPredsPkl(output)] = Stored(r.matrix)] ELSE fs
           /\ wrote' = [wrote EXCEPT ![i] = IF r.err = "none"
                            THEN @ \cup {RerankedPredsPkl(output)} ELSE @]
           /\ loc' = IF r.err = "none" THEN [loc EXCEPT ![i].reranked_preds = r.matrix] ELSE loc
    /\ UNCHANGED <<ninv, log, hit, nenv, start, answered, fvars>>

(***************************************************************************)
(* Reranking.eval_utility.  calculate_metrics is external: a table keeps   *)
(* the ground truth and the score matrix it was called with.  The result   *)
(* says which of the two tables the call writes.                           *)
(***************************************************************************)
OpBoth  == {"after", "before"}      \* the default of the parameter op
OpAfter == {"after"}

y_test_of(members, splits) ==
    [k \in 1..Len(splits.test) |-> members.rows[splits.test[k] + 1]]

calculate_metrics(y_test, scores) == [y_test |-> y_test, scores |-> scores]

eval_utility(members, sparse, preds, splits, op) ==
    [before |-> IF "before" \in op
                THEN <<calculate_metrics(y_test_of(members, splits), preds)>> ELSE <<>>,
     after  |-> IF "after" \in op
                THEN <<calculate_metrics(y_test_of(members, splits), toarray(sparse))>> ELSE <<>>]

\* the files of the output tree after eval_utility has written its tables
after_eval_utility(files, new_output, r) ==
    [path \in DOMAIN files |->
        IF path = UtilityBeforeCsv(new_output) /\ r.before # <<>> THEN Stored(r.before[1])
        ELSE IF path = UtilityAfterCsv(new_output) /\ r.after # <<>> THEN Stored(r.after[1])
        ELSE files[path]]

written_by_eval_utility(new_output, r) ==
    (IF r.before # <<>> THEN {UtilityBeforeCsv(new_output)} ELSE {}) \cup
    (IF r.after # <<>> THEN {UtilityAfterCsv(new_output)} ELSE {})

called_by_eval_utility(r) ==
    (IF r.before # <<>> THEN {"eval_utility.before"} ELSE {}) \cup
    (IF r.after # <<>> THEN {"eval_utility.after"} ELSE {})

\* lines 208-213: load the utility table of the raw predictions; the bare
\* except takes every failure for a miss and calls eval_utility with the
\* default op
run_utility_before(i) ==
    /\ prog.status = "running"
    /\ pc[i] = "utility_before"
    /\ LET new_output == NewOutputOf(prog.files[i])
           e == read_csv(fs[UtilityBeforeCsv(new_output)]).err
           r == IF e = "none" THEN [before |-> <<>>, after |-> <<>>]
                ELSE eval_utility(PMembers, loc[i].reranked_preds, PredsOf(i), PSplits, OpBoth)
       IN  /\ hit' = [hit EXCEPT ![i] = IF e = "none" THEN @ \cup {"UtilityEval(before)"} ELSE @]
           /\ executed' = [executed EXCEPT ![i] = @ \cup called_by_eval_utility(r)]
           /\ fs' = after_eval_utility(fs, new_output, r)
           /\ wrote' = [wrote EXCEPT ![i] = @ \cup written_by_eval_utility(new_output, r)]
    /\ pc' = [pc EXCEPT ![i] = "utility_after"]
    /\ UNCHANGED <<prog, ninv, log, loc, err, nenv, start, answered, fvars>>

\* lines 214-220: load the utility table of the reranked predictions or call
\* eval_utility with op=('after',); then run returns
run_utility_after(i) ==
    /\ prog.status = "running"
    /\ pc[i] = "utility_after"
    /\ LET new_output == NewOutputOf(prog.files[i])
           e == read_csv(fs[UtilityAfterCsv(new_output)]).err
           r == IF e = "none" THEN [before |-> <<>>, after |-> <<>>]
                ELSE eval_utility(PMembers, loc[i].reranked_preds, PredsOf(i), PSplits, OpAfter)
       IN  /\ hit' = [hit EXCEPT ![i] = IF e = "none" THEN @ \cup {"UtilityEval(after)"} ELSE @]
           /\ executed' = [executed EXCEPT ![i] = @ \cup called_by_eval_utility(r)]
           /\ fs' = after_eval_utility(fs, new_output, r)
           /\ wrote' = [wrote EXCEPT ![i] = @ \cup written_by_eval_utility(new_output, r)]
    /\ pc' = [pc EXCEPT ![i] = "done"]
    /\ UNCHANGED <<prog, ninv, log, loc, err, nenv, start, answered, fvars>>

\* the program ends: the loop of line 266 is through, or starmap (line 278)
\* has every task back and re-raises the exception of a failed one
Exit ==
    /\ prog.status = "running"
    /\ \A i \in Files : pc[i] \in {"done", "failed"}
    /\ prog' = IF \E i \in Files : pc[i] = "failed"
               THEN [prog EXCEPT !.status = "crashed",
                                 !.error = err[CHOOSE i \in Files : pc[i] = "failed"]]
               ELSE [prog EXCEPT !.status = "exited"]
    /\ UNCHANGED <<ninv, fs, log, pc, loc, err, executed, wrote, hit, nenv, start, answered, fvars>>

(***************************************************************************)
(* Between two runs of the program somebody may delete a checkpoint (a     *)
(* checkpoint is trusted until it is deleted by hand) or leave one empty   *)
(* or overwritten with something else.  The checkpoints touched are those  *)
(* of the first discovered file and of its output directory.  An empty and *)
(* an overwritten file fail the same way everywhere but at stats.pkl,      *)
(* where run catches the EOFError of the empty file.                       *)
(***************************************************************************)
Touchable == PathsOf(prog.files[1])
Damages(path) ==
    IF path = StatsPkl(OutputOf(prog.files[1])) THEN {"empty", "garbage"} ELSE {"garbage"}

\* the program that ended is gone when the tree is touched: what is left of it
\* is the output tree and the log
Forgotten(files) ==
    /\ prog' = [prog EXCEPT !.status = "idle", !.mode = 0, !.ratios = NoRatios, !.error = "none"]
    /\ pc' = [i \in Files |-> "pending"]
    /\ loc' = [i \in Files |-> NoLocals]
    /\ err' = [i \in Files |-> "none"]
    /\ executed' = [i \in Files |-> {}]
    /\ wrote' = [i \in Files |-> {}]
    /\ hit' = [i \in Files |-> {}]
    /\ start' = [fs |-> files, log |-> log, prev |-> NoRuns(prog.files)]

DeleteCheckpoint(path) ==
    /\ Stopped
    /\ nenv < MaxEnv
    /\ fs[path].state # "absent"
    /\ fs' = [fs EXCEPT ![path] = Absent]
    /\ nenv' = nenv + 1
    /\ Forgotten(fs')
    /\ UNCHANGED <<ninv, log, answered, fvars>>

DamageCheckpoint(path, how) ==
    /\ Stopped
    /\ nenv < MaxEnv
    /\ fs[path].state # how
    /\ fs' = [fs EXCEPT ![path] = Damaged(how)]
    /\ nenv' = nenv + 1
    /\ Forgotten(fs')
    /\ UNCHANGED <<ninv, log, answered, fvars>>

Next ==
    \/ \E mode \in {0, 1}, ratios \in RatioArgs : Start(mode, ratios)
    \/ \E i \in Files : run_begin(i)
    \/ \E i \in Files : run_labels_load(i)
    \/ \E i \in Files : run_labels_compute(i)
    \/ \E i \in Files : run_rerank(i)
    \/ \E i \in Files : run_faireval(i)
    \/ \E i \in Files : run_sparse_load(i)
    \/ \E i \in Files : run_sparse_compute(i)
    \/ \E i \in Files : run_utility_before(i)
    \/ \E i \in Files : run_utility_after(i)
    \/ Exit
    \/ \E path \in Touchable : DeleteCheckpoint(path)
    \/ \E path \in Touchable : \E how \in Damages(path) : DamageCheckpoint(path, how)

Spec == Init /\ [][Next]_vars

(***************************************************************************)
(*                               CLAIMS                                    *)
(***************************************************************************)
RerankReturned == fpc = "returned" /\ call.fn = "rerank"
StatsReturned  == fpc = "returned" /\ call.fn = "get_stats"

\* the oracle kept its contract: for every team at most k_max distinct
\* positions, each within [0, team_size)
OracleKeptContract ==
    \A i \in 1..Len(call.oracle) :
        /\ Len(call.oracle[i]) <= call.k_max
        /\ NoDup(call.oracle[i])
        /\ \A j \in 1..Len(call.oracle[i]) :
               call.oracle[i][j] \in 0..(Len(call.preds[i]) - 1)

\* C1: every id that rerank emits for a team is the original candidate
\* column index of the candidate at the position the oracle returned in the
\* score-descending order, and the score emitted at the same offset is
\* preds[team][id].
C1_EmittedIdsAreOriginalCandidates ==
    (RerankReturned /\ OracleKeptContract /\ result.err = "none") =>
        \A i \in 1..Len(result.idx) : \A j \in 1..Len(result.idx[i]) :
            LET mpp == member_popularity_probs(call.preds[i], call.labels)
                id  == result.idx[i][j]
            IN  /\ id = mpp[call.oracle[i][j] + 1][1]
                /\ result.probs[i][j] = call.preds[i][id + 1]

\* C8: when the oracle keeps its contract, every team's emitted id sequence
\* has at most k_max entries, repeats no id and stays inside the team's
\* candidate index space [0, number_of_candidates).
C8_IdsBoundedUniqueInRange ==
    (RerankReturned /\ OracleKeptContract) =>
        /\ result.err = "none"
        /\ Len(result.idx) = Len(call.preds)
        /\ \A i \in 1..Len(result.idx) :
              /\ Len(result.idx[i]) <= call.k_max
              /\ NoDup(result.idx[i])
              /\ \A j \in 1..Len(result.idx[i]) :
                     result.idx[i][j] \in 0..(Len(call.preds[i]) - 1)

\* a call that returned a full-length selection for a team whose score
\* order differs from its column order
C8_Witness ==
    /\ RerankReturned /\ OracleKeptContract
    /\ result.err = "none"
    /\ \E i \in 1..Len(result.idx) :
          /\ Len(result.idx[i]) = call.k_max
          /\ call.k_max > 1
          /\ member_popularity_probs(call.preds[i], call.labels)[1][1] # 0

\* C9: whenever the oracle returns, for some team, a position outside
\* [0, team_size), too large or negative, rerank fails instead of emitting
\* a result.
C9_OutOfRangePositionFails ==
    (RerankReturned /\ \E i \in 1..Len(call.oracle) : \E j \in 1..Len(call.oracle[i]) :
                          call.oracle[i][j] \notin 0..(Len(call.preds[i]) - 1))
        => result.err # "none"

\* C10 as stated: get_stats fails with an EmptyInputError when the
\* membership matrix has zero columns.
C10_FailsWithEmptyInputError ==
    (StatsReturned /\ call.members.ncols = 0) => result.err = "EmptyInputError"

\* C10 as amended: with zero columns get_stats fails with the
\* ZeroDivisionError of the ratio division and writes neither the stats nor
\* the popularity file.
C10_ZeroColumnsFail ==
    (StatsReturned /\ call.members.ncols = 0) =>
        /\ result.err = "ZeroDivisionError"
        /\ ~result.stats_pkl
        /\ ~result.popularity_csv

\* get_stats has returned from a matrix with teams and no candidate
C10_Witness ==
    /\ StatsReturned
    /\ call.members.ncols = 0
    /\ Len(call.members.rows) > 0
    /\ result.err # "none"

(***************************************************************************)
(* Claims about the pipeline.                                              *)
(***************************************************************************)
\* the checkpoint of the stage was in the output tree when the program started
InTreeAtStart(stage, row) ==
    \A path \in StageCheckpoints(stage, row) : start.fs[path].state = "ok"

\* C2: a stage whose checkpoint is there and loads when the stage is reached
\* is not computed in that run and its checkpoint is not rewritten by that
\* run, whatever the other stages' checkpoints (UtilityEval(after) with a
\* missing UtilityEval(before) checkpoint included).
C2_LoadedStageNotComputed ==
    \A i \in Files : \A stage \in hit[i] :
        InTreeAtStart(stage, prog.files[i]) =>
            /\ StageFunction(stage) \notin executed[i]
            /\ StageCheckpoints(stage, prog.files[i]) \cap wrote[i] = {}

\* C3: a checkpoint that is present but empty or not deserializable is
\* treated like a missing one: no run ends with the exception of a failed
\* checkpoint load.
LoadErrors == {"FileNotFoundError", "EOFError", "UnpicklingError", "EmptyDataError", "ParserError"}

C3_CorruptCheckpointIsAMiss ==
    \A i \in Files : err[i] \notin LoadErrors

\* every checkpoint of the file was present and loadable when the program
\* was started
AllCheckpointsAtStart(i) ==
    \A path \in PathsOf(prog.files[i]) : start.fs[path].state = "ok"

LogLinesOf(lines, row) ==
    Cardinality({n \in 1..Len(lines) : lines[n][1] = NewOutputOf(row)})

\* C4: a run that is started with every checkpoint of its file present calls
\* none of get_stats, rerank, eval_fairness, reranked_preds, eval_utility,
\* appends no line to the runtime log, fails with nothing and leaves every
\* persisted output of the file as it was.
C4_RerunRecomputesNothing ==
    \A i \in Files :
        (prog.status # "idle" /\ AllCheckpointsAtStart(i)) =>
            /\ executed[i] = {}
            /\ wrote[i] = {}
            /\ err[i] = "none"
            /\ LogLinesOf(log, prog.files[i]) = LogLinesOf(start.log, prog.files[i])
            /\ Stopped \/ \A path \in PathsOf(prog.files[i]) : fs[path] = start.fs[path]

\* the second run of a file has returned, having found every checkpoint
C4_Witness ==
    \E i \in Files :
        /\ ninv = 2
        /\ AllCheckpointsAtStart(i)
        /\ pc[i] = "done"
        /\ hit[i] = StageNames

\* C5: a fatal error of one file's run (an input-contract violation such as
\* an out-of-range oracle position) does not keep any other discovered file
\* from being run: when the program has ended after such a failure, no file
\* is left that was never started.
C5_FailureDoesNotStopOthers ==
    (Stopped /\ \E i \in Files : pc[i] = "failed" /\ err[i] \notin LoadErrors) =>
        \A j \in Files : pc[j] # "pending"

\* C6: two workers of the pool never write the same checkpoint path.
C6_WorkersWriteDisjointPaths ==
    prog.mode = 1 =>
        \A i, j \in Files : i # j => wrote[i] \cap wrote[j] = {}

\* C7: the sparse matrix that UtilityEval(after) is computed from is the one
\* reconstructed from the same file's reranked indices and scores.
C7_UtilityAfterUsesOwnMatrix ==
    \A i \in Files :
        "eval_utility.after" \in executed[i] =>
            LET own == reranked_preds(PMembers, PSplits, loc[i].reranked_idx, loc[i].probs)
            IN  own.err = "none" => loc[i].reranked_preds = own.matrix

(***************************************************************************)
(* Claims about Reranking.reranked_preds.                                  *)
(***************************************************************************)
SparseReturned == fpc = "returned" /\ call.fn = "reranked_preds"

\* the ids of every team are candidate ids (columns of the matrix) and no
\* team repeats one
TeamsNameCandidatesOnce ==
    \A t \in 1..Len(call.reranked_idx) :
        /\ NoDup(call.reranked_idx[t])
        /\ \A j \in 1..Len(call.reranked_idx[t]) :
               call.reranked_idx[t][j] \in 0..(call.members.ncols - 1)

GivenTriples ==
    UNION {{<<t - 1, call.reranked_idx[t][j], call.reranked_probs[t][j]>> :
               j \in 1..Len(call.reranked_idx[t])} : t \in 1..Len(call.reranked_idx)}

\* C11: round trip of reranked_preds: when no team repeats a candidate id, the
\* (team, candidate, value) entries read back from the reconstructed matrix are
\* exactly the triples (team, reranked_idx[team][j], reranked_probs[team][j])
\* given as input, and every other entry of the matrix is zero.
C11_RoundTrip ==
    (SparseReturned /\ TeamsNameCandidatesOnce) =>
        /\ result.err = "none"
        /\ {<<pos[1], pos[2], result.matrix.entries[pos]>> : pos \in DOMAIN result.matrix.entries}
               = GivenTriples
        /\ \A r \in 1..result.matrix.shape[1] : \A c \in 1..result.matrix.shape[2] :
               toarray(result.matrix)[r][c] =
                   IF \E x \in GivenTriples : x[1] = r - 1 /\ x[2] = c - 1
                   THEN (CHOOSE x \in GivenTriples : x[1] = r - 1 /\ x[2] = c - 1)[3]
                   ELSE 0

\* a matrix was reconstructed from two teams of two candidates each, with
\* different scores
C11_Witness ==
    /\ SparseReturned /\ TeamsNameCandidatesOnce
    /\ result.err = "none"
    /\ Len(call.reranked_idx) = 2
    /\ Len(call.reranked_idx[1]) = 2
    /\ call.reranked_probs[1] # call.reranked_probs[2]
    /\ \E j \in 1..2 : call.reranked_probs[1][j] # 0

(***************************************************************************)
(* Claims about the pipeline, continued.                                   *)
(***************************************************************************)
\* what the oracle answered for team t of file i in this run
OracleAnswer(i, t) == answered[oracle_args(PredsOf(i)[t], loc[i].labels, loc[i].ratios)]

\* the candidates the oracle selected for team t of file i: the candidates
\* that sit at the answered positions of the score-descending order
SelectedCandidates(i, t) ==
    LET mpp == member_popularity_probs(PredsOf(i)[t], loc[i].labels)
    IN  {PyIndex(mpp, OracleAnswer(i, t)[j])[1] : j \in 1..Len(OracleAnswer(i, t))}

\* the run of file i reranked the predictions and reconstructed the matrix
RerankedAndReconstructed(i) ==
    /\ {"rerank", "reranked_preds"} \subseteq executed[i]
    /\ RerankedPredsPkl(OutputOf(prog.files[i])) \in wrote[i]

\* C12: in the matrix that the SparseReconstruct stage of a run that reranked
\* the predictions produces, every stored entry at (team t, column c) holds
\* preds[t][c], the model's original score of candidate c for team t, and
\* entries exist only at the columns of the candidates the oracle selected
\* for team t.
C12_MatrixHoldsOriginalScores ==
    \A i \in Files :
        RerankedAndReconstructed(i) =>
            \A pos \in DOMAIN loc[i].reranked_preds.entries :
                /\ loc[i].reranked_preds.entries[pos] = PredsOf(i)[pos[1] + 1][pos[2] + 1]
                /\ pos[2] \in SelectedCandidates(i, pos[1] + 1)

(***************************************************************************)
(* Claims about Reranking.get_stats, continued.                            *)
(***************************************************************************)
\* the participation count of candidate m (Python index): the teams it is in
Participation(members, m) ==
    Cardinality({r \in 1..Len(members.rows) : members.rows[r][m + 1] = 1})

TotalParticipation(members) ==
    SumSeq([k \in 1..members.ncols |-> Participation(members, k - 1)])

\* count >= c * mean, with c = coef[1] / coef[2] and mean = total / ncols
AtLeastCoefTimesMean(members, coef, m) ==
    Participation(members, m) * coef[2] * members.ncols >= coef[1] * TotalParticipation(members)

PopularCandidates(members, coef) ==
    {m \in 0..(members.ncols - 1) : AtLeastCoefTimesMean(members, coef, m)}

\* C13: for a membership matrix with at least one column and a coefficient
\* c >= 0, get_stats labels a candidate 'p' if and only if its participation
\* count is >= c times the mean participation count, each candidate on its
\* own, and stores popularity_ratio = {p: popular candidates / candidates,
\* np: 1 minus that}: both values are non-negative and sum to 1.
C13_LabelsAndRatio ==
    (StatsReturned /\ call.members.ncols >= 1) =>
        LET n  == call.members.ncols
            np == Cardinality(PopularCandidates(call.members, call.coefficient))
            ratio == result.stats.popularity_ratio
        IN  /\ result.err = "none"
            /\ Len(result.labels) = n
            /\ \A m \in 0..(n - 1) :
                   result.labels[m + 1] = "p" <=> m \in PopularCandidates(call.members, call.coefficient)
            /\ \A m \in 0..(n - 1) : result.labels[m + 1] \in Labels
            /\ ratio.p = <<np, n>>
            /\ ratio.np = <<n - np, n>>
            /\ ratio.p[1] >= 0 /\ ratio.np[1] >= 0 /\ ratio.p[2] > 0
            /\ ratio.p[2] = ratio.np[2] /\ ratio.p[1] + ratio.np[1] = ratio.p[2]

\* get_stats has returned from two candidates with participation counts 8 and
\* 2 and the coefficient 1: popular, non-popular, ratio 0.5 / 0.5
C13_Witness ==
    /\ StatsReturned
    /\ call.members.ncols = 2
    /\ Participation(call.members, 0) = 8
    /\ Participation(call.members, 1) = 2
    /\ call.coefficient[1] = call.coefficient[2]
    /\ result.err = "none"
    /\ result.labels = <<"p", "np">>
    /\ result.stats.popularity_ratio = [p |-> <<1, 2>>, np |-> <<1, 2>>]

\* the program was started without -ratios
StartedWithoutRatios == ninv > 0 /\ prog.status # "idle" /\ prog.ratios = NoRatios

\* C14: when the caller omits the ratio pair the program does not fail for
\* lack of a ratio: every file's run takes the ratio target from the stats
\* (stats['popularity_ratio']), for its Rerank and its FairnessEval stage alike.
C14_OmittedRatiosAreDerived ==
    StartedWithoutRatios =>
        /\ prog.error # "TypeError"
        /\ \A i \in Files :
               loc[i].stats # <<>> => loc[i].ratios = loc[i].stats.popularity_ratio

\* what each stage needs
DependsOn(stage) ==
    CASE stage = "Rerank"             -> {"Labels"}
      [] stage = "FairnessEval"       -> {"Rerank"}
      [] stage = "SparseReconstruct"  -> {"Rerank"}
      [] stage = "UtilityEval(after)" -> {"SparseReconstruct"}
      [] OTHER -> {}

\* C15: within one run the stages are resolved in the fixed order Labels,
\* Rerank, FairnessEval, SparseReconstruct, UtilityEval(before),
\* UtilityEval(after), and no stage is executed before every stage it depends
\* on has been resolved (loaded or computed) in that run.
C15_StagesInDependencyOrder ==
    [][ \A i \in Files :
          /\ \A k \in 1..Len(StageOrder) :
                ResolvedBy(hit'[i], executed'[i], wrote'[i], prog.files[i], StageOrder[k]) =>
                    \A j \in 1..(k - 1) :
                        ResolvedBy(hit'[i], executed'[i], wrote'[i], prog.files[i], StageOrder[j])
          /\ \A stage \in StageNames :
                (StageFunction(stage) \in executed'[i] \ executed[i]) =>
                    \A d \in DependsOn(stage) :
                        ResolvedBy(hit[i], executed[i], wrote[i], prog.files[i], d) ]_vars

\* a run has returned that found no checkpoint and called the function of
\* every stage
C15_Witness ==
    \E i \in Files :
        /\ pc[i] = "done"
        /\ \A stage \in StageNames : StageFunction(stage) \in executed[i]
        /\ \A stage \in StageNames :
               ResolvedBy(hit[i], executed[i], wrote[i], prog.files[i], stage)

StageIndex(stage) == CHOOSE k \in 1..Len(StageOrder) : StageOrder[k] = stage
Upstream(stage)   == {StageOrder[k] : k \in 1..(StageIndex(stage) - 1)}
Downstream(stage) == {StageOrder[k] : k \in (StageIndex(stage) + 1)..Len(StageOrder)}

\* C16: if a stage of run fails fatally (the oracle returns an out-of-range
\* position during Rerank, say), no later stage of that file is executed, no
\* checkpoint is written for the failed stage, the checkpoints that the
\* completed upstream stages have persisted are left unchanged, and a later
\* retry of the same file loads those checkpoints instead of recomputing them.
C16_FailureKeepsUpstreamCheckpoints ==
    [][ \A i \in Files :
          LET row == prog.files[i]
          IN  /\ pc'[i] = "failed" =>
                   LET f == FailedStage(hit'[i], executed'[i], wrote'[i], row)
                   IN  /\ \A s \in Downstream(f) :
                              StageFunction(s) \notin executed'[i] /\ s \notin hit'[i]
                       /\ StageCheckpoints(f, row) \cap wrote'[i] = {}
                       /\ \A s \in Upstream(f) : \A path \in StageCheckpoints(s, row) :
                              fs'[path] = fs[path] /\ fs'[path].state = "ok"
              /\ start'.prev[i] # "none" =>
                   \A s \in Upstream(start'.prev[i]) :
                       /\ StageFunction(s) \notin executed'[i]
                       /\ StageCheckpoints(s, row) \cap wrote'[i] = {}
                       /\ pc'[i] \in {"done", "failed"} => s \in hit'[i] ]_vars

\* the run of a file failed in Rerank on an out-of-range position, and its
\* retry has loaded the labels and failed in Rerank again
C16_Witness ==
    \E i \in Files :
        /\ ninv = 2
        /\ start.prev[i] = "Rerank"
        /\ pc[i] = "failed"
        /\ err[i] = "IndexError"
        /\ "Labels" \in hit[i]
        /\ "get_stats" \notin executed[i]

\* the stats and the popularity file of the output directory are both there
LabelsPersisted(files, output) ==
    files[StatsPkl(output)].state = "ok" /\ files[PopularityCsv(output)].state = "ok"

\* C17: for one output directory the popularity stats and labels are computed
\* and written at most once over all the runs that share the directory,
\* sequential or concurrent: once the stats and the popularity file exist no
\* run rewrites them, and every run uses the same label vector.
C17_LabelsWrittenOnce ==
    [][ /\ \A i \in Files :
              LET output == OutputOf(prog.files[i])
              IN  (StatsPkl(output) \in wrote'[i] \ wrote[i]) => ~LabelsPersisted(fs, output)
        /\ \A i, j \in Files :
              (/\ OutputOf(prog.files[i]) = OutputOf(prog.files[j])
               /\ loc'[i].labels # <<>> /\ loc'[j].labels # <<>>)
                  => loc'[i].labels = loc'[j].labels ]_vars

\* the oracle calls that rerank makes for file i when the oracle answers as
\* ans says: one per team, up to the first team whose answer cannot be looked
\* up (the exception ends the loop)
OracleCalls(ans, i) ==
    LET preds  == PredsOf(i)
        key(t) == oracle_args(preds[t], loc[i].labels, loc[i].ratios)
        mpp(t) == member_popularity_probs(preds[t], loc[i].labels)
        bad(t) == \E j \in 1..Len(ans[key(t)]) : ~PyInRange(mpp(t), ans[key(t)][j])
    IN  IF \E t \in 1..Len(preds) : bad(t)
        THEN CHOOSE t \in 1..Len(preds) : bad(t) /\ \A u \in 1..(t - 1) : ~bad(u)
        ELSE Len(preds)

\* C18: every team-level oracle call of rerank appends exactly one complete
\* line (output tag, algorithm, k_max) to the runtime log, the log is only ever
\* appended to, and with several workers appending no line is lost and no
\* line is broken by another worker's line.
C18_OneLogLinePerOracleCall ==
    [][ /\ Len(log') >= Len(log)
        /\ SubSeq(log', 1, Len(log)) = log
        /\ \A i \in Files :
              ("rerank" \in executed'[i] \ executed[i]) =>
                  /\ Len(log') = Len(log) + OracleCalls(answered', i)
                  /\ \A n \in (Len(log) + 1)..Len(log') :
                         log'[n] = <<NewOutputOf(prog.files[i]), "det_cons", "None">>
        /\ (\A i \in Files : executed'[i] \ executed[i] # {"rerank"}) => log' = log ]_vars

\* two workers of the pool have each made their oracle call, and the line of
\* the second file stands before the line of the first
C18_Witness ==
    /\ prog.mode = 1
    /\ \A i \in Files : "rerank" \in executed[i]
    /\ Len(log) >= 2
    /\ log[Len(log) - 1][1] = NewOutputOf(prog.files[2])
    /\ log[Len(log)][1] = NewOutputOf(prog.files[1])

(***************************************************************************)
(* Claims about Reranking.eval_fairness.                                   *)
(***************************************************************************)
FairReturned == fpc = "returned" /\ call.fn = "eval_fairness"

\* the label sequence that was fed to the oracle for team t: the labels in
\* score-descending order
SortedLabels(t) ==
    LET mpp == member_popularity_probs(call.preds[t], call.labels)
    IN  [j \in 1..Len(mpp) |-> mpp[j][2]]

\* C19: for every team the 'after' label sequence on which eval_fairness
\* computes ndkl-after, from the indices that rerank produced for the same
\* predictions and labels, is the labels of the candidates the oracle
\* selected, in the oracle's order: its j-th label is the label at position
\* p_j of the sorted label sequence fed to the oracle, p_j being the j-th
\* position the oracle returned.
C19_AfterLabelsAreTheSelected ==
    (FairReturned /\ OracleKeptContract /\ result.fair.err = "none") =>
        \A t \in 1..Len(call.preds) :
            LET after == result.fair.dic[t].after[1]
            IN  /\ Len(after) = Len(call.oracle[t])
                /\ \A j \in 1..Len(after) :
                       after[j] = SortedLabels(t)[call.oracle[t][j] + 1]

\* C20 as stated: whenever a run recomputes the Rerank stage (its checkpoint was
\* missing) it also recomputes every stage downstream of it in that run
\* (FairnessEval, SparseReconstruct, UtilityEval(after)), so that the
\* persisted fairness table, sparse matrix and utility-after table derive from
\* the rerank result that this run persisted.
\* (Stated for a file that has its output directory to itself, so that what
\* it loads was left by an earlier run of the same file.)
C20_RerankRecomputesDownstream ==
    \A i \in Files :
        (/\ pc[i] = "done" /\ "rerank" \in executed[i]
         /\ \A j \in Files : j # i => OutputOf(prog.files[j]) # OutputOf(prog.files[i])) =>
            /\ {"eval_fairness", "reranked_preds", "eval_utility.after"} \subseteq executed[i]
            /\ hit[i] \cap {"FairnessEval", "SparseReconstruct"} = {}

Gains(after, before, x) == x \in after /\ x \notin before

\* C20 as amended: in a run that recomputes the Rerank stage every downstream
\* stage is still resolved on the checkpoint files alone.  FairnessEval and
\* SparseReconstruct are recomputed exactly when their own file is missing
\* and UtilityEval(after) only when the utility-before or the utility-after
\* table fails to load; a downstream checkpoint that loads is used as it is,
\* with no check that it derives from the rerank result of this run.
C20_DownstreamResolvedOnCheckpointsAlone ==
    [][ \A i \in Files :
          "rerank" \in executed'[i] =>
              LET output     == OutputOf(prog.files[i])
                  new_output == NewOutputOf(prog.files[i])
                  faireval   == fs[FairevalCsv(new_output)]
                  sparse     == fs[RerankedPredsPkl(output)]
                  before     == fs[UtilityBeforeCsv(new_output)]
                  after      == fs[UtilityAfterCsv(new_output)]
              IN  /\ Gains(executed'[i], executed[i], "eval_fairness") => faireval.state = "absent"
                  /\ Gains(hit'[i], hit[i], "FairnessEval") =>
                        /\ faireval.state = "ok"
                        /\ fs'[FairevalCsv(new_output)] = faireval
                        /\ "eval_fairness" \notin executed'[i]
                  /\ (pc'[i] = "sparse_compute" /\ pc[i] # "sparse_compute") => sparse.state = "absent"
                  /\ Gains(executed'[i], executed[i], "reranked_preds") => pc[i] = "sparse_compute"
                  /\ Gains(hit'[i], hit[i], "SparseReconstruct") =>
                        /\ sparse.state = "ok"
                        /\ loc'[i].reranked_preds = sparse.data
                        /\ fs'[RerankedPredsPkl(output)] = sparse
                        /\ "reranked_preds" \notin executed'[i]
                  /\ Gains(executed'[i], executed[i], "eval_utility.after") =>
                        before.state # "ok" \/ after.state # "ok"
                  /\ Gains(hit'[i], hit[i], "UtilityEval(after)") => after.state = "ok" ]_vars

\* a run has recomputed the Rerank stage, loaded the fairness table and the
\* sparse matrix that were on disk, and returned
C20_Witness ==
    \E i \in Files :
        /\ pc[i] = "done"
        /\ "rerank" \in executed[i]
        /\ {"FairnessEval", "SparseReconstruct", "UtilityEval(after)"} \subseteq hit[i]
        /\ executed[i] \cap {"eval_fairness", "reranked_preds", "eval_utility.after"} = {}
        /\ \A j \in Files : j # i => OutputOf(prog.files[j]) # OutputOf(prog.files[i])

====
